---- MODULE Spec2Model ----
(***************************************************************************)
(* Kinematic character controller of asterful/paint                        *)
(* (CharacterController and KinematicsPlayer, src/unnamed/part_000), and   *)
(* its projectiles (src/src/systems/projectiles).                          *)
(*                                                                         *)
(* Numbers.  Every real number of the program is a fixed-point integer:    *)
(* the real r is the integer r * Scale, for lengths (metres), times        *)
(* (seconds), speeds (metres per second) and the components of unit        *)
(* vectors alike.  A product of two such numbers is divided by Scale, a    *)
(* quotient is multiplied by it, both rounded to the nearest integer.      *)
(* Vectors are triples <<x, y, z>>.                                        *)
(***************************************************************************)
EXTENDS Integers, Sequences, FiniteSets, TLC

VARIABLES
    scene,                \* the scene: "room" (a floor between two walls), "groove" or "ramp"
    floorY,               \* the scene: height of the floor, or of the bottom of the groove
    pc,                   \* "new", "ready", "failed" (constructor threw), "broken" (update threw)
    havokPlugin,          \* what getPhysicsPlugin() returned: "none", "other", "havok"
    transientPosition,
    previousPosition,
    groundingStatus,
    lastGroundingStatus,
    lastMovementIterationFoundAnyGround,
    timeLeftOver,
    meshPosition,         \* mesh.position
    meshRotationY,        \* mesh.rotation.y, in degrees
    lastCall,             \* history: the public operation called last
    lastArgument,         \* history: the vector handed to the last call (velocity or position)
    stepLog,              \* history: the fixed steps run by the last update, in order
    totalTime,            \* history: frame time supplied so far (saturating)
    totalSteps,           \* history: fixed steps run so far (saturating)
    projectiles,          \* the Projectile objects constructed so far, by number
    activeProjectiles,    \* ProjectileSystem.activeProjectiles, as numbers
    onProjectileHit,      \* ProjectileSystem.onProjectileHit: "none" or "paint"
    paintHits             \* history: calls of the onProjectileHit callback

controller == <<transientPosition, previousPosition, groundingStatus, lastGroundingStatus,
                lastMovementIterationFoundAnyGround, timeLeftOver, meshPosition>>

history == <<lastCall, lastArgument, stepLog, totalTime, totalSteps>>

world == <<scene, floorY>>

projectileSystem == <<projectiles, activeProjectiles, onProjectileHit, paintHits>>

vars == <<world, pc, havokPlugin, controller, meshRotationY, history, projectileSystem>>

Scale == 6 * 100

----------------------------------------------------------------------------
(* Program constants, in fixed-point units.                                *)

\* a slide loop of 3 more iterations
maxIterations_eight == 5 + 3

maxIterations == 5
collisionOffset == 6
\* cos(maxStableSlopeAngle) for a maxStableSlopeAngle of 80 degrees
CosMaxStableSlopeAngle_wide == Scale \div 6

\* cos(maxStableSlopeAngle), maxStableSlopeAngle = 60 degrees
CosMaxStableSlopeAngle == Scale \div 2
minimumGroundProbingDistance == 3
groundProbingBackstepDistance == 60
fixedTimeStep == 10
MaxFrameDeltaTime == 60
capsuleRadius == 240
capsuleHeight == 900
gravity == -3000
speed == 6000

----------------------------------------------------------------------------
(* Scalar arithmetic.                                                      *)

\* Body(value), the value computed once however often Body uses it
Bind(value, Body(_)) == CHOOSE out \in {Body(x) : x \in {value}} : TRUE

Abs(a) == IF a < 0 THEN -a ELSE a

Min(a, b) == IF a <= b THEN a ELSE b

Max(a, b) == IF a >= b THEN a ELSE b

\* a / b rounded to the nearest integer, for b > 0
RDiv(a, b) == IF a >= 0 THEN (2 * a + b) \div (2 * b)
                        ELSE -((2 * (-a) + b) \div (2 * b))

\* fixed-point product and quotient
Mul(a, b) == RDiv(a * b, Scale)

Quot(a, b) == RDiv(a * Scale, b)

RECURSIVE SqrtSearch(_, _, _)
SqrtSearch(n, lo, hi) ==
    IF lo >= hi THEN lo
    ELSE LET mid == (lo + hi + 1) \div 2
         IN  IF mid * mid <= n THEN SqrtSearch(n, mid, hi)
                               ELSE SqrtSearch(n, lo, mid - 1)

\* integer square root, rounded to the nearest integer
Sqrt(n) == Bind(SqrtSearch(n, 0, Min(n, 46000)),
                LAMBDA r : IF n - r * r > r THEN r + 1 ELSE r)

----------------------------------------------------------------------------
(* Vector3.                                                                *)

Zero == <<0, 0, 0>>

Up == <<0, Scale, 0>>

Down == <<0, -Scale, 0>>

add(a, b) == <<a[1] + b[1], a[2] + b[2], a[3] + b[3]>>

subtract(a, b) == <<a[1] - b[1], a[2] - b[2], a[3] - b[3]>>

scale(a, k) == <<Mul(a[1], k), Mul(a[2], k), Mul(a[3], k)>>

Dot(a, b) == RDiv(a[1] * b[1] + a[2] * b[2] + a[3] * b[3], Scale)

Cross(a, b) == <<RDiv(a[2] * b[3] - a[3] * b[2], Scale),
                 RDiv(a[3] * b[1] - a[1] * b[3], Scale),
                 RDiv(a[1] * b[2] - a[2] * b[1], Scale)>>

\* the square of the length, times Scale * Scale
SumSq(a) == a[1] * a[1] + a[2] * a[2] + a[3] * a[3]

\* exact for a vector along one axis
length(a) ==
    IF a[2] = 0 /\ a[3] = 0 THEN Abs(a[1])
    ELSE IF a[1] = 0 /\ a[3] = 0 THEN Abs(a[2])
    ELSE IF a[1] = 0 /\ a[2] = 0 THEN Abs(a[3])
    ELSE Sqrt(SumSq(a))

\* Vector3.normalize: a vector of length 0 is returned as it is
normalize(a) ==
    Bind(length(a), LAMBDA len :
        IF len = 0 \/ len = Scale THEN a
        ELSE <<Quot(a[1], len), Quot(a[2], len), Quot(a[3], len)>>)

\* Vector3.Lerp(start, end, amount) = start + (end - start) * amount
Lerp(start, end, amount) == add(start, scale(subtract(end, start), amount))

----------------------------------------------------------------------------
(* The static collision world behind the Sweep Oracle.  A surface is the   *)
(* plane of the points q with Dot(normal, q) = offset, solid behind.  The  *)
(* room is a level floor at y = floorY between two vertical walls at       *)
(* x = -WallX and x = WallX.  The groove is two slopes of 7 in 24, too     *)
(* steep to stand on, that meet at x = 0, y = floorY.  The ramp is a level *)
(* floor at y = floorY that meets, at x = RampX, one such slope rising to  *)
(* the right.  The world is fixed when the scene is built.                 *)

WallX == 400

RampX == 191

\* unit normals of the two sides of the groove, 73.7 degrees from Up
SteepLeft == <<(24 * Scale) \div 25, (7 * Scale) \div 25, 0>>

SteepRight == <<-((24 * Scale) \div 25), (7 * Scale) \div 25, 0>>

Surfaces ==
    IF scene = "room"
    THEN << [normal |-> Up,               offset |-> floorY],
            [normal |-> <<-Scale, 0, 0>>, offset |-> -WallX],
            [normal |-> <<Scale, 0, 0>>,  offset |-> -WallX] >>
    ELSE IF scene = "ramp"
    THEN << [normal |-> Up,         offset |-> floorY],
            [normal |-> SteepRight, offset |-> Dot(SteepRight, <<RampX, floorY, 0>>)] >>
    ELSE << [normal |-> SteepLeft,  offset |-> Dot(SteepLeft, <<0, floorY, 0>>)],
            [normal |-> SteepRight, offset |-> Dot(SteepRight, <<0, floorY, 0>>)] >>

\* PhysicsShapeCapsule: a segment of half length height/2 - radius along y,
\* thickened by radius; its extent from the centre against the normal n
capsuleExtent(n) ==
    capsuleRadius + Mul(Abs(n[2]), capsuleHeight \div 2 - capsuleRadius)

\* travel along direction until the capsule centred at fromPosition touches
\* surface s; -1 when it moves away from s or along it
travelTo(s, fromPosition, direction) ==
    LET approach == -Dot(s.normal, direction)
        gap      == Dot(s.normal, fromPosition) - s.offset - capsuleExtent(s.normal)
    IN  IF approach <= 0 THEN -1 ELSE Quot(Max(gap, 0), approach)

\* HavokPlugin.shapeCast: the nearest surface reached within distance
shapeCast(fromPosition, direction, distance) ==
    Bind([i \in 1..Len(Surfaces) |-> travelTo(Surfaces[i], fromPosition, direction)],
         LAMBDA travel :
    Bind({i \in DOMAIN travel : travel[i] >= 0 /\ travel[i] <= distance},
         LAMBDA reached :
        IF reached = {} THEN [hasHit |-> FALSE, hitDistance |-> 0, hitNormal |-> Up]
        ELSE Bind(CHOOSE i \in reached :
                     \A j \in reached :
                        travel[i] < travel[j] \/ (travel[i] = travel[j] /\ i <= j),
                  LAMBDA first :
                     [hasHit      |-> TRUE,
                      hitDistance |-> travel[first],
                      hitNormal   |-> Surfaces[first].normal])))

\* CharacterController.sweep
sweep(fromPosition, direction, distance) ==
    Bind(shapeCast(fromPosition, direction, distance), LAMBDA cast :
        IF cast.hasHit
        THEN [hit |-> TRUE, distance |-> cast.hitDistance, normal |-> cast.hitNormal]
        ELSE [hit |-> FALSE, distance |-> 0, normal |-> Up])

----------------------------------------------------------------------------
(* CharacterController: pure parts.                                        *)

\* isStableOnNormal with the comparison turned round
isStableOnNormal_steeper(normal) == Dot(Up, normal) < CosMaxStableSlopeAngle

\* acos(Dot(up, normal)) in degrees <= maxStableSlopeAngle; acos decreases,
\* so this is Dot(up, normal) >= cos(maxStableSlopeAngle)
isStableOnNormal(normal) == Dot(Up, normal) >= CosMaxStableSlopeAngle

getDirectionTangentToSurface(direction, surfaceNormal) ==
    Bind(Cross(direction, Up), LAMBDA directionRight :
        IF SumSq(directionRight) < (Scale * Scale) \div 10000
        THEN normalize(subtract(direction,
                                scale(surfaceNormal, Dot(direction, surfaceNormal))))
        ELSE normalize(Cross(surfaceNormal, directionRight)))

Ungrounded == [isStableOnGround |-> FALSE, foundAnyGround |-> FALSE, groundNormal |-> Up]

\* ground snapping that does not test the gap
snapDistance_always(actualDistance) == actualDistance - collisionOffset

\* a snap by the whole gap, down to the surface
snapDistance_wholeGap(actualDistance) == IF actualDistance > 0 THEN actualDistance ELSE 0

\* ground snapping: how far a stable probe hit at actualDistance lowers the
\* position
snapDistance(actualDistance) ==
    IF actualDistance > 0 THEN actualDistance - collisionOffset ELSE 0

\* history: one query of the Sweep Oracle, as the step log keeps it.  kind is
\* "probe" or "slide"; report is the current Grounding Report when the query
\* is made; velocity and projected are the input and the result of the
\* Velocity Projector after a slide hit; foundGround and position are
\* lastMovementIterationFoundAnyGround and the position once the query has
\* been acted on.
Query(kind, fromPosition, direction, distance, hit, report, velocity, projected, foundGround, position) ==
    [kind |-> kind, from |-> fromPosition, direction |-> direction, distance |-> distance,
     hit |-> hit.hit, hitDistance |-> hit.distance, normal |-> hit.normal,
     report |-> report, velocity |-> velocity, projected |-> projected,
     foundGround |-> foundGround, position |-> position]

\* a probe that never reaches further than the minimum
probingDistance_minimum(c) == minimumGroundProbingDistance

\* how far below the capsule the probe looks
probingDistance(c) ==
    IF c.lastGroundingStatus.isStableOnGround \/ c.lastMovementIterationFoundAnyGround
    THEN Max(capsuleRadius, minimumGroundProbingDistance)
    ELSE minimumGroundProbingDistance

\* probeGround, on the fields it reads and writes: c is a record with
\* transientPosition, groundingStatus, lastGroundingStatus and
\* lastMovementIterationFoundAnyGround (and the history field sweeps)
probeGround(c) ==
    LET probeStart    == add(c.transientPosition, scale(Up, groundProbingBackstepDistance))
        probeDistance == probingDistance(c) + groundProbingBackstepDistance
    IN  Bind(sweep(probeStart, Down, probeDistance), LAMBDA hit :
            LET actualDistance == hit.distance - groundProbingBackstepDistance
                isStable       == isStableOnNormal(hit.normal)
            IN  Bind(IF ~hit.hit THEN c
                     ELSE [c EXCEPT
                             !.groundingStatus =
                                 [isStableOnGround |-> isStable \/ @.isStableOnGround,
                                  foundAnyGround   |-> TRUE,
                                  groundNormal     |-> hit.normal],
                             !.transientPosition =
                                 IF isStable
                                 THEN subtract(@, scale(Up, snapDistance(actualDistance)))
                                 ELSE @],
                     LAMBDA probed :
                        [probed EXCEPT !.sweeps =
                            Append(@, Query("probe", probeStart, Down, probeDistance, hit,
                                            c.groundingStatus, Zero, Zero,
                                            c.lastMovementIterationFoundAnyGround,
                                            probed.transientPosition))]))

\* handleVelocityProjection that hands the velocity back as it came
handleVelocityProjection_none(report, velocity, hitNormal) == velocity

handleVelocityProjection(report, velocity, hitNormal) ==
    LET isGrounded  == report.isStableOnGround
        isHitStable == isStableOnNormal(hitNormal)
    IN  IF isGrounded
        THEN IF isHitStable
             THEN scale(getDirectionTangentToSurface(velocity, hitNormal), length(velocity))
             ELSE Bind(report.groundNormal, LAMBDA groundNormal :
                  Bind(normalize(Cross(groundNormal, hitNormal)), LAMBDA obstructionLeft :
                  Bind(normalize(Cross(obstructionLeft, Up)), LAMBDA obstructionNormal :
                  Bind(normalize(Cross(obstructionNormal, groundNormal)), LAMBDA obstructionRight :
                  Bind(normalize(Cross(obstructionRight, obstructionNormal)), LAMBDA obstructionUp :
                  Bind(scale(getDirectionTangentToSurface(velocity, obstructionUp),
                             length(velocity)), LAMBDA projectedVelocity :
                      subtract(projectedVelocity,
                               scale(obstructionNormal,
                                     Dot(projectedVelocity, obstructionNormal)))))))))
        ELSE IF isHitStable
             THEN LET horizontalVelocity ==
                          subtract(velocity, scale(Up, Dot(velocity, Up)))
                  IN  scale(getDirectionTangentToSurface(horizontalVelocity, hitNormal),
                            length(horizontalVelocity))
             ELSE subtract(velocity, scale(hitNormal, Dot(velocity, hitNormal)))

----------------------------------------------------------------------------
(* CharacterController: the fixed step.                                    *)

\* the advance after a hit, running into contact
moveDistance_toContact(hit) == hit.distance

\* the advance after a hit: up to collisionOffset short of the contact
moveDistance(hit) == Max(0, hit.distance - collisionOffset)

\* a slide loop that ends only when no distance remains
loopEnds_whenSpent(i, remainingDistance) == remainingDistance <= 0

\* the slide loop ends before iteration i: the cap of the for statement, or
\* the break when no distance remains
loopEnds(i, remainingDistance) == i >= maxIterations \/ remainingDistance <= 0

\* a slide loop that takes a stable hit for ground under the feet at once
reportAfterHit_tracksGround(report, hit) ==
    IF isStableOnNormal(hit.normal)
    THEN [isStableOnGround |-> TRUE, foundAnyGround |-> TRUE, groundNormal |-> hit.normal]
    ELSE report

\* the grounding report after a hit of the slide loop: the loop writes
\* lastMovementIterationFoundAnyGround only, never groundingStatus
reportAfterHit(report, hit) == report

\* the for loop of simulate from iteration i on; the grounding report it
\* consults is the one the pre-loop probe left
RECURSIVE slideLoop(_, _, _, _, _, _, _)
slideLoop(report, deltaTime, i, remainingDistance, remainingDirection, currentPosition, foundGround) ==
    IF loopEnds(i, remainingDistance)
    THEN [position |-> currentPosition, foundGround |-> foundGround, sweeps |-> <<>>]
    ELSE Bind(sweep(currentPosition, remainingDirection, remainingDistance), LAMBDA hit :
         IF hit.hit
         THEN LET afterHit == remainingDistance - hit.distance
              IN  Bind(scale(remainingDirection, Quot(afterHit, deltaTime)),
                       LAMBDA velocityBeforeProjection :
                  Bind(handleVelocityProjection(report, velocityBeforeProjection, hit.normal),
                       LAMBDA projectedVelocity :
                  Bind([distance  |-> Mul(length(projectedVelocity), deltaTime),
                        direction |-> IF SumSq(projectedVelocity) > 0
                                      THEN normalize(projectedVelocity)
                                      ELSE remainingDirection,
                        position  |-> add(currentPosition,
                                          scale(remainingDirection, moveDistance(hit))),
                        foundGround |-> foundGround \/ isStableOnNormal(hit.normal)],
                       LAMBDA remaining :
                  Bind(slideLoop(reportAfterHit(report, hit), deltaTime, i + 1, remaining.distance,
                                 remaining.direction, remaining.position,
                                 remaining.foundGround),
                       LAMBDA rest :
                      [rest EXCEPT !.sweeps =
                          <<Query("slide", currentPosition, remainingDirection,
                                  remainingDistance, hit, report,
                                  velocityBeforeProjection, projectedVelocity,
                                  remaining.foundGround, remaining.position)>> \o @]))))
         ELSE Bind(add(currentPosition, scale(remainingDirection, remainingDistance)),
                   LAMBDA position :
                  [position    |-> position,
                   foundGround |-> foundGround,
                   sweeps      |-> <<Query("slide", currentPosition, remainingDirection,
                                           remainingDistance, hit, report, Zero, Zero,
                                           foundGround, position)>>]))

\* preSimulate that resets the reports and does not probe
preSimulate_noProbe(c) ==
    [c EXCEPT !.lastGroundingStatus = c.groundingStatus,
              !.groundingStatus = Ungrounded,
              !.lastMovementIterationFoundAnyGround = FALSE]

\* preSimulate that keeps the current report while it probes
preSimulate_keepReport(c) ==
    Bind([c EXCEPT !.lastGroundingStatus = c.groundingStatus,
                   !.lastMovementIterationFoundAnyGround = FALSE],
         LAMBDA kept : probeGround(kept))

preSimulate(c) ==
    Bind([c EXCEPT !.lastGroundingStatus = c.groundingStatus,
                   !.groundingStatus = Ungrounded,
                   !.lastMovementIterationFoundAnyGround = FALSE],
         LAMBDA reset : probeGround(reset))

\* simulate without the return at speed 0: it sweeps at least collisionOffset
\* far, downwards when the velocity has no direction
simulate_noShortCircuit(c, velocity, deltaTime) ==
    Bind(slideLoop(c.groundingStatus, deltaTime, 0,
                   Max(collisionOffset, Mul(length(velocity), deltaTime)),
                   IF velocity = Zero THEN Down ELSE normalize(velocity),
                   c.transientPosition, c.lastMovementIterationFoundAnyGround),
         LAMBDA moved :
            [c |-> [c EXCEPT !.transientPosition = moved.position,
                             !.lastMovementIterationFoundAnyGround = moved.foundGround,
                             !.sweeps = @ \o moved.sweeps],
             velocity |-> velocity])

\* a landing seen in every step that stands on stable ground
justLanded_wheneverGrounded(c) == c.groundingStatus.isStableOnGround

\* the landing test of simulate: not stably grounded when the previous step
\* ended, stably grounded now
justLanded(c) ==
    ~c.lastGroundingStatus.isStableOnGround /\ c.groundingStatus.isStableOnGround

\* a re-probe after every slide loop that began without stable ground
reprobes_wheneverAirborne(c) == ~c.groundingStatus.isStableOnGround

\* the test of simulate for the probe after the slide loop
reprobes(c) ==
    c.lastMovementIterationFoundAnyGround /\ ~c.groundingStatus.isStableOnGround

\* Vector3.normalize works in place: where simulate normalizes its argument
\* (no landing, speed not 0) the caller's vector is left normalized.  The
\* result is the controller after the step and the caller's vector.
simulate(c, velocity, deltaTime) ==
    LET landed == justLanded(c)
    IN  Bind(subtract(velocity, scale(Up, Dot(velocity, Up))), LAMBDA horizontalVelocity :
        Bind(IF landed
             THEN scale(getDirectionTangentToSurface(horizontalVelocity,
                                                     c.groundingStatus.groundNormal),
                        length(horizontalVelocity))
             ELSE velocity, LAMBDA desired :
        Bind(length(desired), LAMBDA velocityMagnitude :
        IF velocityMagnitude = 0
        THEN [c |-> c, velocity |-> velocity]
        ELSE Bind(normalize(desired), LAMBDA direction :
             Bind(slideLoop(c.groundingStatus, deltaTime, 0,
                            Mul(velocityMagnitude, deltaTime), direction,
                            c.transientPosition,
                            c.lastMovementIterationFoundAnyGround), LAMBDA moved :
             Bind([c EXCEPT !.transientPosition = moved.position,
                            !.lastMovementIterationFoundAnyGround = moved.foundGround,
                            !.sweeps = @ \o moved.sweeps],
                  LAMBDA afterLoop :
                 [c |-> IF reprobes(afterLoop)
                        THEN probeGround(afterLoop)
                        ELSE afterLoop,
                  velocity |-> IF landed THEN velocity ELSE normalize(velocity)]))))))

\* history: what the step log keeps of one fixed step: the velocity it was
\* given, the controller's fields when it began (c) and when it ended (r.c),
\* and the queries of the Sweep Oracle it made, in order
StepRecord(c, velocity, r) ==
    [velocity     |-> velocity,
     start        |-> c.transientPosition,
     reportBefore |-> c.groundingStatus,
     previous     |-> r.c.previousPosition,
     lastReport   |-> r.c.lastGroundingStatus,
     report       |-> r.c.groundingStatus,
     position     |-> r.c.transientPosition,
     grounded     |-> r.c.groundingStatus.isStableOnGround,
     sweeps       |-> r.c.sweeps]

\* fixedSteps with an if in the place of the while: one step at most
fixedSteps_once(c, velocity, log) ==
    IF c.timeLeftOver >= fixedTimeStep
    THEN Bind(preSimulate([c EXCEPT !.previousPosition = c.transientPosition,
                                    !.sweeps = <<>>]),
              LAMBDA probed :
         Bind(simulate(probed, velocity, fixedTimeStep), LAMBDA r :
             [c   |-> [r.c EXCEPT !.timeLeftOver = @ - fixedTimeStep],
              log |-> Append(log, StepRecord(c, velocity, r))]))
    ELSE [c |-> c, log |-> log]

\* the while loop of update: c.timeLeftOver already holds the new frame time.
\* log collects, for each step run, the velocity it was given and the
\* position and grounding it ended with.
RECURSIVE fixedSteps(_, _, _)
fixedSteps(c, velocity, log) ==
    IF c.timeLeftOver >= fixedTimeStep
    THEN Bind(preSimulate([c EXCEPT !.previousPosition = c.transientPosition,
                                    !.sweeps = <<>>]),
              LAMBDA probed :
         Bind(simulate(probed, velocity, fixedTimeStep), LAMBDA r :
         Bind(Append(log, StepRecord(c, velocity, r)), LAMBDA logged :
             fixedSteps([r.c EXCEPT !.timeLeftOver = @ - fixedTimeStep],
                        r.velocity, logged))))
    ELSE [c |-> c, log |-> log]

\* update without the clamp of the frame time
update_unclamped(c, velocity, deltaTime) ==
    Bind(fixedSteps([c EXCEPT !.timeLeftOver = @ + deltaTime], velocity, <<>>), LAMBDA run :
    Bind(Quot(run.c.timeLeftOver, fixedTimeStep), LAMBDA alpha :
        [c   |-> [run.c EXCEPT !.meshPosition =
                     Lerp(run.c.previousPosition, run.c.transientPosition, alpha)],
         log |-> run.log]))

\* update taking alpha from the accumulator before the steps are run
update_alphaBeforeSteps(c, velocity, deltaTime) ==
    Bind(c.timeLeftOver + Min(deltaTime, MaxFrameDeltaTime), LAMBDA filled :
    Bind(fixedSteps([c EXCEPT !.timeLeftOver = filled], velocity, <<>>), LAMBDA run :
    Bind(Quot(filled, fixedTimeStep), LAMBDA alpha :
        [c   |-> [run.c EXCEPT !.meshPosition =
                     Lerp(run.c.previousPosition, run.c.transientPosition, alpha)],
         log |-> run.log])))

\* update taking the previousPosition snapshot once per call, before the loop
update_snapshotPerCall(c, velocity, deltaTime) ==
    Bind(fixedSteps([c EXCEPT !.timeLeftOver = @ + Min(deltaTime, MaxFrameDeltaTime),
                    !.previousPosition = c.transientPosition],
                    velocity, <<>>), LAMBDA run :
    Bind(Quot(run.c.timeLeftOver, fixedTimeStep), LAMBDA alpha :
        [c   |-> [run.c EXCEPT !.meshPosition =
                     Lerp(run.c.previousPosition, run.c.transientPosition, alpha)],
         log |-> run.log]))

update(c, velocity, deltaTime) ==
    Bind(fixedSteps([c EXCEPT !.timeLeftOver = @ + Min(deltaTime, MaxFrameDeltaTime)],
                    velocity, <<>>), LAMBDA run :
    Bind(Quot(run.c.timeLeftOver, fixedTimeStep), LAMBDA alpha :
        [c   |-> [run.c EXCEPT !.meshPosition =
                     Lerp(run.c.previousPosition, run.c.transientPosition, alpha)],
         log |-> run.log]))

\* getPosition(): a copy of transientPosition
getPosition == transientPosition

\* setPosition that forgets previousPosition
setPosition_keepPrevious(c, position) ==
    [c EXCEPT !.transientPosition = position,
              !.meshPosition = position]

\* setPosition that starts the controller afresh at the new place
setPosition_resetsGrounding(c, position) ==
    [c EXCEPT !.transientPosition = position,
              !.previousPosition = position,
              !.meshPosition = position,
              !.groundingStatus = Ungrounded,
              !.lastGroundingStatus = Ungrounded,
              !.lastMovementIterationFoundAnyGround = FALSE,
              !.timeLeftOver = 0]

\* setPosition, on the controller's fields
setPosition(c, position) ==
    [c EXCEPT !.transientPosition = position,
              !.previousPosition = position,
              !.meshPosition = position]

----------------------------------------------------------------------------
(* KinematicsPlayer.                                                       *)

\* isGrounded(): the stability flag of the current Grounding Report
isGrounded == groundingStatus.isStableOnGround

\* moveVelocity with the gravity test inverted
moveVelocity_inverted(grounded, inputDirection) ==
    <<Mul(inputDirection[1], speed),
      IF grounded THEN gravity ELSE 0,
      Mul(inputDirection[3], speed)>>

\* the velocity KinematicsPlayer.move hands to the controller
moveVelocity(grounded, inputDirection) ==
    <<Mul(inputDirection[1], speed),
      IF grounded THEN 0 ELSE gravity,
      Mul(inputDirection[3], speed)>>

\* Math.atan2(x, z) in degrees, for the directions of InputDirections
atan2Degrees(x, z) ==
    IF x > 0 THEN 90 ELSE IF x < 0 THEN -90 ELSE IF z < 0 THEN 180 ELSE 0

----------------------------------------------------------------------------
(* Inputs.                                                                 *)

StartPosition == <<0, 5 * Scale, 0>>

ElevatedFloor == 4 * Scale

MaxDeltaTime == 100

DeltaTimes == {0, 5, fixedTimeStep, MaxDeltaTime}

FallVelocity == <<0, -50 * Scale, 0>>

\* a horizontal push, handed to update directly in frames of PushDeltaTimes
PushVelocity == <<speed, 0, 0>>

PushDeltaTimes == {MaxDeltaTime}

InputDirections == {Zero, <<Scale, 0, 0>>}

\* teleport targets: the start, and two places near the wall: just above the
\* floor and standing exactly on it
Teleports == {StartPosition, <<100, ElevatedFloor + capsuleHeight \div 2 + 10, 0>>, <<100, ElevatedFloor + capsuleHeight \div 2 + 2, 0>>, <<100, ElevatedFloor + capsuleHeight \div 2, 0>>}

Backends == {"noEngine", "noPlugin", "other", "havok"}

MaxTotalTime == 300

----------------------------------------------------------------------------
(* Projectile and ProjectileSystem.                                        *)

\* Projectile.lifeTime: seconds before auto-destroy
lifeTime == 3 * Scale

\* Projectile.gravity
projectileGravity == <<0, -((981 * Scale) \div 100), 0>>

ProjectileIds == {1, 2}

\* no Projectile constructed under this number yet
NoProjectile ==
    [spawned |-> FALSE, isDisposed |-> FALSE, lifeTime |-> lifeTime,
     velocity |-> Zero, position |-> Zero,
     renderObserver |-> "null", meshDisposals |-> 0, observerRemovals |-> 0,
     hitCalls |-> 0, hitWhileDisposed |-> FALSE]

\* new Projectile(scene, startPosition, direction, speed, onHit)
newProjectile(startPosition, direction, projectileSpeed) ==
    [NoProjectile EXCEPT !.spawned = TRUE,
                         !.velocity = scale(normalize(direction), projectileSpeed),
                         !.position = startPosition,
                         !.renderObserver = "registered"]

\* dispose without the isDisposed test
dispose_unguarded(p) ==
    [p EXCEPT !.isDisposed = TRUE,
              !.meshDisposals = @ + 1,
              !.observerRemovals = IF p.renderObserver = "null" THEN @ ELSE @ + 1,
              !.renderObserver = IF @ = "null" THEN @ ELSE "removed"]

\* Projectile.dispose
dispose(p) ==
    IF p.isDisposed THEN p
    ELSE [p EXCEPT !.isDisposed = TRUE,
                   !.meshDisposals = @ + 1,
                   !.observerRemovals = IF p.renderObserver = "null" THEN @ ELSE @ + 1,
                   !.renderObserver = IF @ = "null" THEN @ ELSE "removed"]

\* scene.pickWithRay(new Ray(origin, direction, stepDistance), ...): the
\* pickable mesh of the scene is its floor, at y = floorY
pickWithRay(origin, direction, stepDistance) ==
    IF direction[2] < 0 /\ origin[2] >= floorY
    THEN Bind(Quot(origin[2] - floorY, -direction[2]), LAMBDA travel :
            IF travel <= stepDistance
            THEN [hit |-> TRUE, pickedPoint |-> add(origin, scale(direction, travel))]
            ELSE [hit |-> FALSE, pickedPoint |-> origin])
    ELSE [hit |-> FALSE, pickedPoint |-> origin]

\* Projectile.update for a frame of deltaTime: the projectile afterwards, and
\* whether it called its hit callback
updateProjectile(p, deltaTime) ==
    IF p.isDisposed THEN [p |-> p, hit |-> FALSE]
    ELSE IF p.lifeTime - deltaTime <= 0
    THEN [p |-> dispose([p EXCEPT !.lifeTime = @ - deltaTime]), hit |-> FALSE]
    ELSE Bind(add(p.velocity, scale(projectileGravity, deltaTime)), LAMBDA velocity :
         Bind(Mul(length(velocity), deltaTime), LAMBDA stepDistance :
         Bind(normalize(velocity), LAMBDA direction :
         Bind(pickWithRay(p.position, direction, stepDistance), LAMBDA picked :
         Bind([p EXCEPT !.lifeTime = @ - deltaTime, !.velocity = velocity],
              LAMBDA aged :
             IF picked.hit
             THEN [p |-> dispose([aged EXCEPT !.position = picked.pickedPoint,
                                              !.hitCalls = @ + 1,
                                              !.hitWhileDisposed = @ \/ aged.isDisposed]),
                   hit |-> TRUE]
             ELSE [p |-> [aged EXCEPT !.position =
                                         add(@, scale(direction, stepDistance))],
                   hit |-> FALSE])))))

\* ProjectileSystem.getActiveCount
getActiveCount == Cardinality(activeProjectiles)

----------------------------------------------------------------------------
(* State machine.                                                          *)

\* the number of fixed steps the last update ran
stepsRun == Len(stepLog)

Self == [transientPosition |-> transientPosition,
         previousPosition  |-> previousPosition,
         groundingStatus   |-> groundingStatus,
         lastGroundingStatus |-> lastGroundingStatus,
         lastMovementIterationFoundAnyGround |-> lastMovementIterationFoundAnyGround,
         timeLeftOver      |-> timeLeftOver,
         meshPosition      |-> meshPosition,
         sweeps            |-> <<>>]

\* a ProjectileSystem just constructed
NoProjectiles ==
    /\ projectiles = [id \in ProjectileIds |-> NoProjectile]
    /\ activeProjectiles = {}
    /\ onProjectileHit = "none"
    /\ paintHits = 0

Becomes(c) ==
    /\ transientPosition' = c.transientPosition
    /\ previousPosition' = c.previousPosition
    /\ groundingStatus' = c.groundingStatus
    /\ lastGroundingStatus' = c.lastGroundingStatus
    /\ lastMovementIterationFoundAnyGround' = c.lastMovementIterationFoundAnyGround
    /\ timeLeftOver' = c.timeLeftOver
    /\ meshPosition' = c.meshPosition

\* the state in which KinematicsPlayer is about to construct its controller
InitWith(floor) ==
    /\ scene = "room"
    /\ floorY = floor
    /\ pc = "new"
    /\ havokPlugin = "none"
    /\ transientPosition = StartPosition
    /\ previousPosition = StartPosition
    /\ groundingStatus = Ungrounded
    /\ lastGroundingStatus = Ungrounded
    /\ lastMovementIterationFoundAnyGround = FALSE
    /\ timeLeftOver = 0
    /\ meshPosition = StartPosition
    /\ meshRotationY = 0
    /\ lastCall = "none"
    /\ lastArgument = Zero
    /\ stepLog = <<>>
    /\ totalTime = 0
    /\ totalSteps = 0
    /\ NoProjectiles

Init == InitWith(ElevatedFloor)

\* new CharacterController(scene, mesh, radius, height) on a scene whose
\* physics backend is backend
Construct(backend) ==
    /\ pc = "new"
    /\ IF backend \in {"noEngine", "noPlugin"}
       THEN pc' = "failed" /\ havokPlugin' = "none"
       ELSE pc' = "ready" /\ havokPlugin' = backend
    /\ Becomes([Self EXCEPT !.transientPosition = meshPosition,
                            !.previousPosition = meshPosition])
    /\ lastCall' = "constructor"
    /\ UNCHANGED <<world, meshRotationY, lastArgument, stepLog, totalTime, totalSteps>>
    /\ UNCHANGED projectileSystem

\* the controller's part of update(velocity, deltaTime).  A plugin without
\* shapeCast makes the first sweep of the first fixed step throw.
UpdateController(velocity, deltaTime) ==
    \E r \in {update(Self, velocity, deltaTime)} :
        /\ pc = "ready"
        /\ lastArgument' = velocity
        /\ IF havokPlugin = "havok"
              \/ timeLeftOver + Min(deltaTime, MaxFrameDeltaTime) < fixedTimeStep
           THEN /\ Becomes(r.c)
                /\ stepLog' = r.log
                /\ pc' = pc
           ELSE /\ Becomes([Self EXCEPT
                             !.timeLeftOver = @ + Min(deltaTime, MaxFrameDeltaTime),
                             !.previousPosition = transientPosition,
                             !.lastGroundingStatus = groundingStatus,
                             !.groundingStatus = Ungrounded,
                             !.lastMovementIterationFoundAnyGround = FALSE])
                /\ stepLog' = <<>>
                /\ pc' = "broken"
        /\ UNCHANGED <<world, havokPlugin>>

Update(velocity, deltaTime) ==
    /\ UpdateController(velocity, deltaTime)
    /\ lastCall' = "update"
    /\ UNCHANGED <<meshRotationY, totalTime, totalSteps, projectileSystem>>

SetPosition(position) ==
    /\ pc = "ready"
    /\ Becomes(setPosition(Self, position))
    /\ lastCall' = "setPosition"
    /\ lastArgument' = position
    /\ UNCHANGED <<world, pc, havokPlugin, meshRotationY, stepLog, totalTime, totalSteps>>
    /\ UNCHANGED projectileSystem

\* KinematicsPlayer.move(inputDirection, deltaTime)
Move(inputDirection, deltaTime) ==
    /\ UpdateController(moveVelocity(isGrounded, inputDirection), deltaTime)
    /\ meshRotationY' = IF pc' = "ready" /\ length(inputDirection) > Scale \div 10
                        THEN atan2Degrees(inputDirection[1], inputDirection[3])
                        ELSE meshRotationY
    /\ lastCall' = "move"
    /\ UNCHANGED <<totalTime, totalSteps, projectileSystem>>

Next ==
    \/ \E backend \in Backends : Construct(backend)
    \/ \E deltaTime \in DeltaTimes : Update(FallVelocity, deltaTime)
    \/ \E deltaTime \in PushDeltaTimes : Update(PushVelocity, deltaTime)
    \/ \E inputDirection \in InputDirections, deltaTime \in DeltaTimes :
          Move(inputDirection, deltaTime)
    \/ \E position \in Teleports : SetPosition(position)

Spec == Init /\ [][Next]_vars

----------------------------------------------------------------------------
(* The falling scenario: radius 0.4, height 1.5, start (0,5,0), constant   *)
(* velocity (0,-50,0), floor at y = 0, frames of any length up to 0.1 s.   *)

FallDeltaTimes == {0, 1, 4, fixedTimeStep, 2 * fixedTimeStep, 35, MaxFrameDeltaTime}

\* a controller just constructed at StartPosition
NewController == [transientPosition |-> StartPosition,
                  previousPosition  |-> StartPosition,
                  groundingStatus   |-> Ungrounded,
                  lastGroundingStatus |-> Ungrounded,
                  lastMovementIterationFoundAnyGround |-> FALSE,
                  timeLeftOver      |-> 0,
                  meshPosition      |-> StartPosition,
                  sweeps            |-> <<>>]

InitFall ==
    /\ scene = "room"
    /\ floorY = 0
    /\ pc = "ready"
    /\ havokPlugin = "havok"
    /\ transientPosition = NewController.transientPosition
    /\ previousPosition = NewController.previousPosition
    /\ groundingStatus = NewController.groundingStatus
    /\ lastGroundingStatus = NewController.lastGroundingStatus
    /\ lastMovementIterationFoundAnyGround = NewController.lastMovementIterationFoundAnyGround
    /\ timeLeftOver = NewController.timeLeftOver
    /\ meshPosition = NewController.meshPosition
    /\ meshRotationY = 0
    /\ lastCall = "constructor"
    /\ lastArgument = Zero
    /\ stepLog = <<>>
    /\ totalTime = 0
    /\ totalSteps = 0
    /\ NoProjectiles

\* the frame time and the steps are counted up to MaxTotalTime
Counted == totalTime <= MaxTotalTime

UpdateFall(deltaTime) ==
    /\ UpdateController(FallVelocity, deltaTime)
    /\ lastCall' = "update"
    /\ totalTime' = IF totalTime + deltaTime <= MaxTotalTime
                    THEN totalTime + deltaTime ELSE MaxTotalTime + 1
    /\ totalSteps' = IF totalTime + deltaTime <= MaxTotalTime
                     THEN totalSteps + Len(stepLog') ELSE 0
    /\ UNCHANGED <<meshRotationY, projectileSystem>>

NextFall == \E deltaTime \in FallDeltaTimes : UpdateFall(deltaTime)

SpecFall == InitFall /\ [][NextFall]_vars

----------------------------------------------------------------------------
(* The groove scenario: the same player, constructed at (0,5,0) above a    *)
(* groove whose bottom is at y = 0, updated at the falling velocity and    *)
(* moved without input, under gravity.                                     *)

InitGroove ==
    /\ scene = "groove"
    /\ floorY = 0
    /\ pc = "ready"
    /\ havokPlugin = "havok"
    /\ transientPosition = NewController.transientPosition
    /\ previousPosition = NewController.previousPosition
    /\ groundingStatus = NewController.groundingStatus
    /\ lastGroundingStatus = NewController.lastGroundingStatus
    /\ lastMovementIterationFoundAnyGround = NewController.lastMovementIterationFoundAnyGround
    /\ timeLeftOver = NewController.timeLeftOver
    /\ meshPosition = NewController.meshPosition
    /\ meshRotationY = 0
    /\ lastCall = "constructor"
    /\ lastArgument = Zero
    /\ stepLog = <<>>
    /\ totalTime = 0
    /\ totalSteps = 0
    /\ NoProjectiles

NextGroove ==
    \/ \E deltaTime \in DeltaTimes : Update(FallVelocity, deltaTime)
    \/ \E deltaTime \in DeltaTimes : Move(Zero, deltaTime)

SpecGroove == InitGroove /\ [][NextGroove]_vars

----------------------------------------------------------------------------
(* The ramp scenario: the same player, constructed just above the floor    *)
(* at the foot of a slope too steep to stand on, moved with and without    *)
(* input and put back where it started, or over the slope.                 *)

RampStart == <<0, capsuleHeight \div 2 + 4, 0>>

OverRamp == <<RampX, capsuleHeight + 190, 0>>

RampTeleports == {RampStart, OverRamp}

RampDeltaTimes == {fixedTimeStep, MaxDeltaTime}

InitRamp ==
    /\ scene = "ramp"
    /\ floorY = 0
    /\ pc = "ready"
    /\ havokPlugin = "havok"
    /\ transientPosition = RampStart
    /\ previousPosition = RampStart
    /\ groundingStatus = Ungrounded
    /\ lastGroundingStatus = Ungrounded
    /\ lastMovementIterationFoundAnyGround = FALSE
    /\ timeLeftOver = 0
    /\ meshPosition = RampStart
    /\ meshRotationY = 0
    /\ lastCall = "constructor"
    /\ lastArgument = Zero
    /\ stepLog = <<>>
    /\ totalTime = 0
    /\ totalSteps = 0
    /\ NoProjectiles

NextRamp ==
    \/ \E deltaTime \in RampDeltaTimes : Move(<<Scale, 0, 0>>, deltaTime)
    \/ \E position \in RampTeleports : SetPosition(position)

SpecRamp == InitRamp /\ [][NextRamp]_vars

----------------------------------------------------------------------------
(* The projectile scenario: a ProjectileSystem on the scene with its floor *)
(* at y = 0; projectiles are spawned, the scene renders frames, and the    *)
(* caller disposes of a projectile it was handed, or of all.               *)

\* shots: what spawnProjectile is given
Shots == {[startPosition |-> <<0, 2 * Scale, 0>>, direction |-> Down, speed |-> 10 * Scale],
          [startPosition |-> <<0, 2 * Scale, 0>>, direction |-> Up, speed |-> 30 * Scale]}

\* engine.getDeltaTime() / 1000, positive
FrameTimes == {Scale, (3 * Scale) \div 2}

InitProjectiles == InitFall

\* ProjectileSystem.setHitCallback(callback)
SetHitCallback ==
    /\ onProjectileHit' = "paint"
    /\ UNCHANGED <<projectiles, activeProjectiles, paintHits>>
    /\ UNCHANGED <<world, pc, havokPlugin, controller, meshRotationY, history>>

\* ProjectileSystem.spawnProjectile(startPosition, direction, speed)
SpawnProjectile(shot) ==
    /\ \E id \in ProjectileIds : ~projectiles[id].spawned
    /\ LET id == CHOOSE id \in ProjectileIds :
                    /\ ~projectiles[id].spawned
                    /\ \A other \in ProjectileIds : other < id => projectiles[other].spawned
       IN  /\ projectiles' = [projectiles EXCEPT
                 ![id] = newProjectile(shot.startPosition, shot.direction, shot.speed)]
           /\ activeProjectiles' = activeProjectiles \cup {id}
    /\ UNCHANGED <<onProjectileHit, paintHits>>
    /\ UNCHANGED <<world, pc, havokPlugin, controller, meshRotationY, history>>

\* one frame of the scene: onBeforeRenderObservable notifies the observers
\* registered with it, each running update of its projectile; a hit calls
\* the callback spawnProjectile gave, which notifies onProjectileHit and
\* deletes the projectile from activeProjectiles
RenderFrame(deltaTime) ==
    LET observed == {id \in ProjectileIds : projectiles[id].renderObserver = "registered"}
        updated  == [id \in ProjectileIds |-> updateProjectile(projectiles[id], deltaTime)]
        hits     == {id \in observed : updated[id].hit}
    IN  /\ projectiles' = [id \in ProjectileIds |->
                              IF id \in observed THEN updated[id].p ELSE projectiles[id]]
        /\ activeProjectiles' = activeProjectiles \ hits
        /\ paintHits' = IF onProjectileHit = "paint"
                        THEN paintHits + Cardinality(hits) ELSE paintHits
        /\ UNCHANGED onProjectileHit
        /\ UNCHANGED <<world, pc, havokPlugin, controller, meshRotationY, history>>

\* Projectile.dispose(), called on a projectile spawnProjectile returned
DisposeProjectile(id) ==
    /\ projectiles[id].spawned
    /\ projectiles' = [projectiles EXCEPT ![id] = dispose(@)]
    /\ UNCHANGED <<activeProjectiles, onProjectileHit, paintHits>>
    /\ UNCHANGED <<world, pc, havokPlugin, controller, meshRotationY, history>>

\* ProjectileSystem.clearAll
ClearAll ==
    /\ projectiles' = [id \in ProjectileIds |->
                          IF id \in activeProjectiles
                          THEN dispose(projectiles[id]) ELSE projectiles[id]]
    /\ activeProjectiles' = {}
    /\ UNCHANGED <<onProjectileHit, paintHits>>
    /\ UNCHANGED <<world, pc, havokPlugin, controller, meshRotationY, history>>

NextProjectiles ==
    \/ SetHitCallback
    \/ \E shot \in Shots : SpawnProjectile(shot)
    \/ \E deltaTime \in FrameTimes : RenderFrame(deltaTime)
    \/ \E id \in ProjectileIds : DisposeProjectile(id)
    \/ ClearAll

SpecProjectiles == InitProjectiles /\ [][NextProjectiles]_vars

\* the scene keeps rendering frames
SpecProjectilesRendering ==
    SpecProjectiles /\ WF_vars(\E deltaTime \in FrameTimes : RenderFrame(deltaTime))

----------------------------------------------------------------------------
(* Properties.                                                             *)

TypeOK ==
    /\ pc \in {"new", "ready", "failed", "broken"}
    /\ timeLeftOver \in Nat
    /\ Len(stepLog) <= 7

\* a call of update (directly or through KinematicsPlayer.move) has returned
UpdateReturned == pc = "ready" /\ lastCall \in {"update", "move"}

\* the fixed steps of the last update
Steps == 1..Len(stepLog)

\* the queries of kind k that step i of the last update made, as indices
Queries(i, k) == {j \in 1..Len(stepLog[i].sweeps) : stepLog[i].sweeps[j].kind = k}

\* the number of queries the last update made of the Sweep Oracle
RECURSIVE sweepsRun(_)
sweepsRun(i) == IF i = 0 THEN 0 ELSE Len(stepLog[i].sweeps) + sweepsRun(i - 1)

\* a lies between b and c
Between(a, b, c) == (b <= a /\ a <= c) \/ (c <= a /\ a <= b)

C2_InterpolatedBetween ==
    UpdateReturned =>
        LET alpha == Quot(timeLeftOver, fixedTimeStep)
        IN  /\ 0 <= alpha /\ alpha < Scale
            /\ meshPosition = Lerp(previousPosition, transientPosition, alpha)
            /\ \A i \in 1..3 :
                  Between(meshPosition[i], previousPosition[i], transientPosition[i])

\* an update has left the mesh strictly inside the segment of its last step
C2_Witness ==
    /\ UpdateReturned /\ stepsRun > 0 /\ timeLeftOver = 5
    /\ meshPosition[2] < previousPosition[2]
    /\ transientPosition[2] < meshPosition[2]

C6_GravityOnlyWhenAirborne ==
    [][lastCall' = "move" =>
          lastArgument'[2] = IF groundingStatus.isStableOnGround THEN 0 ELSE gravity]_vars

\* a grounded player has been moved sideways without gravity
C6_Witness ==
    /\ pc = "ready" /\ lastCall = "move" /\ stepsRun > 0
    /\ lastArgument = <<speed, 0, 0>> /\ isGrounded

\* C7: setPosition(p) leaves transientPosition, previousPosition and the mesh
\* position at p, and an update that follows it and runs no fixed step
\* leaves the mesh position at p whatever alpha is.
C7_Teleport ==
    /\ [](pc = "ready" /\ lastCall = "setPosition" =>
             /\ getPosition = lastArgument
             /\ previousPosition = lastArgument
             /\ meshPosition = lastArgument)
    /\ [][(lastCall = "setPosition" /\ lastCall' \in {"update", "move"}
           /\ pc' = "ready" /\ stepsRun' = 0)
          => meshPosition' = lastArgument]_vars

\* the teleport target lies below the height at which a step leaves a
\* resting controller: teleported there, then updated without a step at
\* alpha = 1/2
C7_Witness ==
    /\ UpdateReturned /\ stepsRun = 0 /\ timeLeftOver = 5
    /\ \E p \in Teleports \ {StartPosition} :
          transientPosition = p /\ previousPosition = p /\ meshPosition = p

\* C8: transientPosition changes only in an update that runs a fixed step or
\* in setPosition; an update that runs no step leaves transientPosition,
\* previousPosition and both grounding reports as they were.
C8_OnlyStepsMove ==
    /\ [][getPosition' # getPosition =>
             \/ lastCall' = "setPosition"
             \/ lastCall' \in {"update", "move"} /\ stepsRun' > 0]_vars
    /\ [][(lastCall' \in {"update", "move"} /\ pc' = "ready" /\ stepsRun' = 0) =>
             UNCHANGED <<transientPosition, previousPosition, groundingStatus,
                         lastGroundingStatus>>]_vars

\* an update without a step has returned between two different positions
C8_Witness ==
    /\ UpdateReturned /\ stepsRun = 0 /\ timeLeftOver = 5
    /\ previousPosition # transientPosition /\ isGrounded
    /\ meshPosition # transientPosition

\* C9: a controller that exists has a sweep-capable backend: the
\* constructor raises an error for every backend that cannot answer a sweep.
C9_FailFast == pc \in {"ready", "broken"} => havokPlugin = "havok"

\* the controller after n updates of one fixed step each, at FallVelocity
RECURSIVE singleSteps(_, _)
singleSteps(c, n) ==
    IF n = 0 THEN c
    ELSE Bind(update(c, FallVelocity, fixedTimeStep).c,
              LAMBDA stepped : singleSteps(stepped, n - 1))

\* C3: frame times in [0, 0.1] that sum to T run floor(T / fixedTimeStep)
\* fixed steps however T is cut into frames, and at a constant velocity they
\* leave transientPosition where as many single-step frames leave it.
C3_FrameRateIndependent ==
    (pc = "ready" /\ Counted) =>
        /\ totalSteps = totalTime \div fixedTimeStep
        /\ transientPosition = singleSteps(NewController, totalSteps).transientPosition

\* the centre of a capsule standing on the floor, within collisionOffset
AtRest(position) ==
    Abs(position[2] - (floorY + capsuleHeight \div 2)) <= collisionOffset

\* fixed steps after which the fall has ended however the frames were cut:
\* a frame of 6 steps falls 500 units in its first step and 10 in each
\* later one, so 4 such frames leave less than one first step to fall
StepsToLand == 4 * 6 + 1

\* C10 (as amended): falling from (0,5,0) at (0,-50,0) onto the floor at
\* y = 0, the controller is grounded after finitely many fixed steps, stays
\* grounded in every later step, and from then on getPosition().y stays
\* within collisionOffset of 0.75, half the capsule height.
C10_LandsAndRests ==
    /\ [](Counted /\ totalSteps >= StepsToLand => isGrounded)
    /\ [](isGrounded => AtRest(getPosition))
    /\ [][isGrounded =>
             /\ isGrounded'
             /\ \A i \in 1..Len(stepLog') :
                   stepLog'[i].grounded /\ AtRest(stepLog'[i].position)]_vars

\* long after the landing, an update has run steps that all ended grounded
C10_Witness ==
    /\ ~Counted /\ isGrounded /\ stepsRun = 6
    /\ \A i \in 1..Len(stepLog) : stepLog[i].grounded
    /\ getPosition[2] = capsuleHeight \div 2 + collisionOffset

\* C10 as stated: once grounded, getPosition().y is within collisionOffset
\* of 0.4, the capsule radius.
C10_RestsAtRadius ==
    isGrounded => Abs(getPosition[2] - (floorY + capsuleRadius)) <= collisionOffset

\* the free distance between the capsule centred at position and the
\* surface of the scene with the given normal, along that normal
clearance(normal, position) ==
    LET s == CHOOSE i \in 1..Len(Surfaces) : Surfaces[i].normal = normal
    IN  Dot(normal, position) - Surfaces[s].offset - capsuleExtent(normal)

\* query q ran orthogonally into a vertical wall and reached it
IntoWall(q) ==
    /\ q.kind = "slide" /\ q.hit
    /\ q.normal[2] = 0
    /\ q.direction = scale(q.normal, -Scale)

\* C11: a fixed step whose velocity runs orthogonally into a vertical wall
\* that it reaches advances by exactly max(0, hitDistance - collisionOffset)
\* along the approach direction and no further; it ends no closer to the
\* wall than collisionOffset unless it started closer, and never inside it.
C11_WallStop ==
    \A i \in Steps : \A j \in Queries(i, "slide") :
        LET q == stepLog[i].sweeps[j]
        IN  IntoWall(q) =>
              /\ q.position = add(q.from, scale(q.direction,
                                                Max(0, q.hitDistance - collisionOffset)))
              /\ Dot(q.normal, stepLog[i].position) = Dot(q.normal, q.position)
              /\ \A k \in Queries(i, "slide") : k <= j
              /\ clearance(q.normal, stepLog[i].position)
                    >= Min(collisionOffset, clearance(q.normal, q.from))
              /\ clearance(q.normal, stepLog[i].position) >= 0

\* an airborne step has been stopped at collisionOffset from the wall, and a
\* later step of the same update, begun there, has not moved
C11_Witness ==
    /\ UpdateReturned /\ stepsRun >= 2
    /\ \E i \in Steps \ {stepsRun} :
          /\ ~stepLog[i].grounded
          /\ \E j \in Queries(i, "slide") :
                /\ IntoWall(stepLog[i].sweeps[j])
                /\ stepLog[i].sweeps[j].hitDistance > collisionOffset
          /\ clearance(<<-Scale, 0, 0>>, stepLog[i].position) = collisionOffset
          /\ \E j \in Queries(i + 1, "slide") :
                /\ IntoWall(stepLog[i + 1].sweeps[j])
                /\ stepLog[i + 1].sweeps[j].hitDistance = collisionOffset
          /\ stepLog[i + 1].position = stepLog[i].position

\* the normal is within 60 degrees of Up: its cosine with Up is 1/2 or more
Walkable(normal) == 2 * Dot(Up, normal) >= Scale

\* C12: in the grounded + stable-hit case the Velocity Projector returns a
\* velocity of exactly the magnitude of its input, for every input velocity
\* and every stable hit normal.
C12_SlopeSpeedPreserved ==
    \A i \in Steps : \A j \in Queries(i, "slide") :
        LET q == stepLog[i].sweeps[j]
        IN  (q.hit /\ q.report.isStableOnGround /\ Walkable(q.normal)) =>
               length(q.projected) = length(q.velocity)

\* query q of an airborne step ran straight down onto a flat floor
LandsOnFloor(q) ==
    /\ q.kind = "slide" /\ q.hit
    /\ ~q.report.isStableOnGround
    /\ q.direction = Down /\ q.normal = Up

\* C13: when an airborne actor with a purely downward velocity hits a flat
\* stable floor in the slide loop, the projected velocity has no vertical
\* component; it is the zero vector, and the slide loop moves the actor no
\* further in that step.
C13_LandingZeroesVertical ==
    \A i \in Steps : \A j \in Queries(i, "slide") :
        LET q == stepLog[i].sweeps[j]
        IN  LandsOnFloor(q) =>
              /\ q.projected[2] = 0
              /\ q.projected = Zero
              /\ \A k \in (j + 1)..Len(stepLog[i].sweeps) :
                    /\ stepLog[i].sweeps[k].kind = "probe"
                    /\ stepLog[i].sweeps[k].from =
                          add(q.position, scale(Up, groundProbingBackstepDistance))

\* a fall has been stopped by the floor with downward velocity left over,
\* and the step has ended grounded
C13_Witness ==
    /\ UpdateReturned
    /\ \E i \in Steps : \E j \in Queries(i, "slide") :
          /\ LandsOnFloor(stepLog[i].sweeps[j])
          /\ stepLog[i].sweeps[j].velocity[2] < 0
          /\ stepLog[i].sweeps[j].hitDistance > collisionOffset
          /\ stepLog[i].grounded

\* query q of an airborne step hit a surface too steep to walk on
AirborneSteepHit(q) ==
    /\ q.kind = "slide" /\ q.hit
    /\ ~q.report.isStableOnGround
    /\ ~Walkable(q.normal)

\* C14: while airborne, a hit on a surface steeper than 60 degrees yields
\* the planar deflection v - (v.n)n, as a vertical wall does: the result is
\* not renormalized, so its speed is at most the input speed, and the hit
\* does not mark the step as having touched walkable ground.
C14_SteepSlopeIsWall ==
    \A i \in Steps : \A j \in Queries(i, "slide") :
        LET q == stepLog[i].sweeps[j]
        IN  AirborneSteepHit(q) =>
              /\ q.projected =
                    subtract(q.velocity, scale(q.normal, Dot(q.velocity, q.normal)))
              /\ SumSq(q.projected) <= SumSq(q.velocity)
              /\ q.foundGround = stepLog[i].sweeps[j - 1].foundGround
              /\ ~q.foundGround

\* a fall has been deflected by a side of the groove, slower than it came
C14_Witness ==
    /\ UpdateReturned /\ scene = "groove"
    /\ \E i \in Steps : \E j \in Queries(i, "slide") :
          /\ AirborneSteepHit(stepLog[i].sweeps[j])
          /\ stepLog[i].sweeps[j].normal = SteepLeft
          /\ stepLog[i].sweeps[j].velocity[1] = 0
          /\ stepLog[i].sweeps[j].projected[1] > 0
          /\ stepLog[i].sweeps[j].projected[2] < 0
          /\ SumSq(stepLog[i].sweeps[j].projected) < SumSq(stepLog[i].sweeps[j].velocity)

\* probe query q found a walkable surface exactly under the capsule
RestingProbe(q) ==
    /\ q.kind = "probe" /\ q.hit
    /\ q.hitDistance = groundProbingBackstepDistance
    /\ Walkable(q.normal)

\* C15: a probe whose hit distance equals the backstep distance, the actor
\* resting exactly on a stable surface, reports stable grounding and leaves
\* the position where it was (in particular within collisionOffset).
C15_SnapIdempotent ==
    \A i \in Steps : \A j \in Queries(i, "probe") :
        LET q == stepLog[i].sweeps[j]
            before == subtract(q.from, scale(Up, groundProbingBackstepDistance))
        IN  RestingProbe(q) =>
              /\ stepLog[i].report.isStableOnGround
              /\ stepLog[i].report.foundAnyGround
              /\ q.position = before
              /\ Abs(q.position[2] - before[2]) <= collisionOffset

\* a player teleported exactly onto the floor has been probed there by the
\* first step of an update, not grounded before
C15_Witness ==
    /\ UpdateReturned /\ stepsRun > 0
    /\ RestingProbe(stepLog[1].sweeps[1])
    /\ ~stepLog[1].reportBefore.isStableOnGround
    /\ stepLog[1].start[2] = floorY + capsuleHeight \div 2
    /\ stepLog[1].grounded

\* step i began by landing: not stably grounded before, its first probe
\* found walkable ground
LandedAtProbe(i) ==
    /\ ~stepLog[i].reportBefore.isStableOnGround
    /\ stepLog[i].sweeps[1].hit /\ Walkable(stepLog[i].sweeps[1].normal)

\* C17: a fixed step run with a zero velocity (given as zero, or vertical
\* and zeroed by the landing) makes no query for the slide loop, raises no
\* error, and leaves transientPosition where the ground probe of that step
\* left it.
C17_ZeroVelocityStep ==
    \A i \in Steps :
        (\/ stepLog[i].velocity = Zero
         \/ LandedAtProbe(i) /\ stepLog[i].velocity[1] = 0 /\ stepLog[i].velocity[3] = 0)
        => /\ pc = "ready"
           /\ Queries(i, "slide") = {}
           /\ Len(stepLog[i].sweeps) = 1
           /\ stepLog[i].sweeps[1].kind = "probe"
           /\ stepLog[i].position = stepLog[i].sweeps[1].position

\* a grounded player has been moved without input: a step at velocity zero
\* whose probe snapped the position
C17_Witness ==
    /\ pc = "ready" /\ lastCall = "move" /\ stepsRun > 0
    /\ lastArgument = Zero
    /\ stepLog[1].velocity = Zero
    /\ stepLog[1].position # stepLog[1].start

\* the slide loop of step i stopped at its cap with distance left to travel
CappedStep(i) ==
    /\ Cardinality(Queries(i, "slide")) = 5
    /\ LET last == stepLog[i].sweeps[Len(stepLog[i].sweeps)]
       IN  /\ last.kind = "slide" /\ last.hit
           /\ Mul(length(last.projected), fixedTimeStep) > 0

C19_ProbeBeforeMove ==
    \A i \in Steps :
        /\ stepLog[i].previous = stepLog[i].start
        /\ Len(stepLog[i].sweeps) >= 1
        /\ stepLog[i].sweeps[1].kind = "probe"
        /\ stepLog[i].sweeps[1].from =
              add(stepLog[i].previous, scale(Up, groundProbingBackstepDistance))
        /\ \A j \in Queries(i, "slide") : j > 1

\* a step whose probe snapped the position and whose slide loop then moved
\* it: the snapshot is neither of the two later positions
C19_Witness ==
    /\ UpdateReturned /\ stepsRun > 0
    /\ Queries(1, "slide") # {}
    /\ previousPosition = stepLog[stepsRun].start
    /\ stepLog[1].sweeps[1].position # stepLog[1].previous
    /\ stepLog[1].position # stepLog[1].sweeps[1].position
    /\ stepLog[1].position # stepLog[1].previous

\* a probe of step i hit walkable ground
ProbedWalkable(i) ==
    \E j \in Queries(i, "probe") :
        stepLog[i].sweeps[j].hit /\ Walkable(stepLog[i].sweeps[j].normal)

\* every probe of step i missed
ProbesMissed(i) == \A j \in Queries(i, "probe") : ~stepLog[i].sweeps[j].hit

\* C20: at the start of each fixed step the current report becomes
\* lastGroundingStatus and an ungrounded report takes its place before the
\* probe; a step ends stably grounded only if a probe of that same step hit
\* a stable surface, a step whose probes miss ends ungrounded, and the
\* probes of a step leave the report retained from the step before as it
\* was.
C20_NoStaleGrounding ==
    /\ \A i \in Steps :
          /\ stepLog[i].lastReport = stepLog[i].reportBefore
          /\ stepLog[i].sweeps[1].report = Ungrounded
          /\ stepLog[i].report.isStableOnGround => ProbedWalkable(i)
          /\ ProbesMissed(i) => stepLog[i].report = Ungrounded
          /\ i > 1 => stepLog[i].reportBefore = stepLog[i - 1].report
    /\ (UpdateReturned /\ stepsRun > 0) =>
          /\ groundingStatus = stepLog[stepsRun].report
          /\ lastGroundingStatus = stepLog[stepsRun].lastReport

\* a step whose probe missed has ended ungrounded; the next step has
\* retained that report and, with a probe hit of its own, ended grounded;
\* the step after it began grounded and was grounded again by its own probe
C20_Witness ==
    /\ UpdateReturned /\ stepsRun >= 3
    /\ \E i \in Steps \ {stepsRun - 1, stepsRun} :
          /\ ProbesMissed(i) /\ stepLog[i].report = Ungrounded
          /\ stepLog[i + 1].lastReport = Ungrounded
          /\ stepLog[i + 1].grounded /\ ProbedWalkable(i + 1)
          /\ stepLog[i + 2].reportBefore.isStableOnGround
          /\ stepLog[i + 2].lastReport.isStableOnGround
          /\ stepLog[i + 2].sweeps[1].report = Ungrounded
          /\ stepLog[i + 2].grounded /\ ProbedWalkable(i + 2)

\* the two reaches of the probe, backstep included
NarrowProbe == minimumGroundProbingDistance + groundProbingBackstepDistance

WideProbe == Max(capsuleRadius, minimumGroundProbingDistance) + groundProbingBackstepDistance

\* C21: the probe covers the minimum distance plus the backstep when the
\* previous step ended ungrounded and the slide loop of this step has not
\* touched walkable ground, and max(capsuleRadius, minimum) plus the backstep
\* otherwise.  So the probe before the loop widens only on the previous
\* step's grounding, and the re-probe after the loop is always widened.
C21_ProbeDistance ==
    \A i \in Steps : \A j \in Queries(i, "probe") :
        LET q == stepLog[i].sweeps[j]
        IN  /\ q.direction = Down
            /\ q.distance = IF stepLog[i].lastReport.isStableOnGround \/ q.foundGround
                             THEN WideProbe ELSE NarrowProbe
            /\ j = 1 => q.distance = IF stepLog[i].reportBefore.isStableOnGround
                                      THEN WideProbe ELSE NarrowProbe
            /\ j > 1 => q.distance = WideProbe

\* a fall has landed in one step, narrow probe before the loop and wide
\* re-probe after it, and the next step has probed wide from the start
C21_Witness ==
    /\ UpdateReturned /\ stepsRun >= 2
    /\ \E i \in Steps \ {stepsRun} :
          /\ Cardinality(Queries(i, "probe")) = 2
          /\ stepLog[i].sweeps[1].distance = NarrowProbe
          /\ stepLog[i].sweeps[Len(stepLog[i].sweeps)].distance = WideProbe
          /\ stepLog[i + 1].sweeps[1].distance = WideProbe
    /\ NarrowProbe < WideProbe

\* the position probe query q started from, and the gap it measured below
ProbedFrom(q) == subtract(q.from, scale(Up, groundProbingBackstepDistance))

ProbedGap(q) == q.hitDistance - groundProbingBackstepDistance

\* probe query q hit a walkable surface with a positive gap
SnappingProbe(q) == q.kind = "probe" /\ q.hit /\ Walkable(q.normal) /\ ProbedGap(q) > 0

PreLoopReport(i) ==
    LET q == stepLog[i].sweeps[1]
    IN  IF q.hit
        THEN [isStableOnGround |-> Walkable(q.normal), foundAnyGround |-> TRUE,
              groundNormal |-> q.normal]
        ELSE Ungrounded

\* C23: every collision of one step's slide loop is classified with the
\* grounded flag and the ground normal that the step's probe before the loop
\* produced; a stable hit inside the loop raises the found-ground signal and
\* changes nothing in how the later hits of the step are projected.
C23_GroundingFrozenInLoop ==
    \A i \in Steps : \A j \in Queries(i, "slide") :
        LET q == stepLog[i].sweeps[j]
        IN  /\ q.report = PreLoopReport(i)
            /\ q.hit => /\ q.projected = handleVelocityProjection(PreLoopReport(i), q.velocity, q.normal)
                        /\ Walkable(q.normal) => q.foundGround
            /\ j + 1 \in Queries(i, "slide") =>
                  stepLog[i].sweeps[j + 1].report = q.report

\* an airborne step has hit walkable ground in its slide loop and has then
\* hit again, still classified as airborne
C23_Witness ==
    /\ UpdateReturned
    /\ \E i \in Steps : \E j \in Queries(i, "slide") :
          LET q == stepLog[i].sweeps[j]
          IN  /\ ~PreLoopReport(i).isStableOnGround
              /\ q.hit /\ Walkable(q.normal) /\ q.foundGround
              /\ j + 1 \in Queries(i, "slide")
              /\ stepLog[i].sweeps[j + 1].hit
              /\ ~stepLog[i].sweeps[j + 1].report.isStableOnGround

\* the velocity the slide loop of step i has to start from: in a landing
\* step the horizontal part of the caller's velocity, laid along the ground
\* the probe found, at the horizontal speed; the caller's velocity otherwise
DesiredVelocity(i) ==
    LET velocity   == stepLog[i].velocity
        horizontal == <<velocity[1], 0, velocity[3]>>
    IN  IF LandedAtProbe(i)
        THEN scale(getDirectionTangentToSurface(horizontal, stepLog[i].sweeps[1].normal),
                   length(horizontal))
        ELSE velocity

LoopHitWalkable(i) ==
    \E j \in Queries(i, "slide") :
        stepLog[i].sweeps[j].hit /\ Walkable(stepLog[i].sweeps[j].normal)

\* C25: a fixed step probes the ground a second time exactly when its slide
\* loop hit a stable surface and its probe before the loop did not report
\* stable ground; a loop that met only unstable surfaces, or none, is never
\* followed by a probe.  A step makes one probe, first of its queries, or
\* two, the second one last.
C25_ReprobeCondition ==
    \A i \in Steps :
        LET sweeps == stepLog[i].sweeps
            probes == Queries(i, "probe")
        IN  /\ 1 \in probes
            /\ probes = IF LoopHitWalkable(i) /\ ~PreLoopReport(i).isStableOnGround
                        THEN {1, Len(sweeps)} ELSE {1}
            /\ Cardinality(probes) <= 2

\* an airborne step has hit the floor in its slide loop and has probed the
\* ground again after it, ending grounded
C25_Witness ==
    /\ UpdateReturned
    /\ \E i \in Steps :
          /\ ~PreLoopReport(i).isStableOnGround
          /\ LoopHitWalkable(i)
          /\ Cardinality(Queries(i, "probe")) = 2
          /\ stepLog[i].sweeps[Len(stepLog[i].sweeps)].kind = "probe"
          /\ stepLog[i].grounded

\* a grounding report that claims stable ground has found ground, with a
\* normal one can stand on
Consistent(report) ==
    report.isStableOnGround => (report.foundAnyGround /\ Walkable(report.groundNormal))

\* step i probed again after its slide loop and hit a surface too steep to
\* stand on
ReprobeHitSteep(i) ==
    LET q == stepLog[i].sweeps[Len(stepLog[i].sweeps)]
    IN  /\ Cardinality(Queries(i, "probe")) = 2
        /\ q.hit /\ ~Walkable(q.normal)

\* C27: in every state of the controller, a grounding report with
\* isStableOnGround has foundAnyGround and a groundNormal within
\* maxStableSlopeAngle of Up: the current report, the retained one, and the
\* report each step ended with, a step whose re-probe hit an unstable
\* surface included.
C27_ReportConsistent ==
    /\ Consistent(groundingStatus)
    /\ Consistent(lastGroundingStatus)
    /\ \A i \in Steps :
          /\ Consistent(stepLog[i].report)
          /\ Consistent(stepLog[i].lastReport)
          /\ ReprobeHitSteep(i) => ~stepLog[i].report.isStableOnGround

\* a step has hit the floor, has slid up the slope and has been probed
\* again onto the slope
C27_Witness ==
    /\ UpdateReturned /\ scene = "ramp"
    /\ \E i \in Steps :
          /\ ReprobeHitSteep(i)
          /\ stepLog[i].report.foundAnyGround
          /\ stepLog[i].report.groundNormal = SteepRight

\* the last thing the last fixed step did was a probe that snapped: a
\* re-probe, or the first probe of a step that did not move
EndedOnSnap ==
    /\ UpdateReturned /\ stepsRun > 0
    /\ SnappingProbe(stepLog[stepsRun].sweeps[Len(stepLog[stepsRun].sweeps)])

\* probing again at once changes neither the position nor the report
ProbeAgainChangesNothing ==
    LET again == probeGround(Self)
    IN  /\ again.transientPosition = transientPosition
        /\ again.groundingStatus = groundingStatus

\* C28: a probe that hits a stable surface with a positive gap leaves the
\* actor exactly collisionOffset above the surface, a second probe at once
\* changes neither position nor report, and the snap never moves the actor
\* upward.
C28_SnapNeverRaises ==
    /\ \A i \in Steps : \A j \in Queries(i, "probe") :
          LET q == stepLog[i].sweeps[j]
          IN  SnappingProbe(q) =>
                 /\ clearance(q.normal, q.position) = 6
                 /\ q.position[2] <= ProbedFrom(q)[2]
    /\ EndedOnSnap => ProbeAgainChangesNothing

\* what does hold of the snap: a probe that hits a stable surface with a
\* positive gap g leaves the actor exactly collisionOffset above the surface,
\* and a second probe at once changes neither position nor report; the snap
\* moves the actor upward, by collisionOffset - g, exactly when
\* g < collisionOffset.
SnapFixpoint ==
    /\ \A i \in Steps : \A j \in Queries(i, "probe") :
          LET q == stepLog[i].sweeps[j]
          IN  SnappingProbe(q) =>
                 /\ clearance(q.normal, q.position) = 6
                 /\ q.position[2] - ProbedFrom(q)[2] = 6 - ProbedGap(q)
                 /\ q.position[2] > ProbedFrom(q)[2] <=> ProbedGap(q) < 6
    /\ EndedOnSnap => ProbeAgainChangesNothing

\* a player put closer to the floor than collisionOffset has been probed,
\* raised to collisionOffset above it, and left there by the step
RaisedBySnap ==
    /\ EndedOnSnap
    /\ LET q == stepLog[stepsRun].sweeps[Len(stepLog[stepsRun].sweeps)]
       IN  /\ ProbedGap(q) < 6
           /\ q.position[2] > ProbedFrom(q)[2]
           /\ transientPosition = q.position
           /\ clearance(Up, transientPosition) = 6

\* C29: setPosition sets transientPosition, previousPosition and the mesh
\* position and changes nothing else: the time accumulator, the current and
\* the retained grounding report and the found-ground flag stay as they
\* were.  So the first fixed step after it starts at the new place with the
\* grounding report of the old one: that report widens its probe or not, and
\* is the one its landing test compares with.
C29_TeleportKeepsGrounding ==
    [][/\ lastCall' = "setPosition" =>
             /\ transientPosition' = lastArgument'
             /\ previousPosition' = lastArgument'
             /\ meshPosition' = lastArgument'
             /\ timeLeftOver' = timeLeftOver
             /\ groundingStatus' = groundingStatus
             /\ lastGroundingStatus' = lastGroundingStatus
             /\ lastMovementIterationFoundAnyGround' = lastMovementIterationFoundAnyGround
       /\ (lastCall = "setPosition" /\ lastCall' \in {"update", "move"}
           /\ pc' = "ready" /\ Len(stepLog') > 0) =>
             /\ stepLog'[1].start = lastArgument
             /\ stepLog'[1].reportBefore = groundingStatus
             /\ stepLog'[1].lastReport = groundingStatus
             /\ stepLog'[1].sweeps[1].distance =
                   IF groundingStatus.isStableOnGround THEN WideProbe ELSE NarrowProbe
             /\ LET q == stepLog'[1].sweeps[1]
                    landed == ~groundingStatus.isStableOnGround /\ q.hit /\ Walkable(q.normal)
                    velocity == stepLog'[1].velocity
                IN  (landed /\ velocity[1] = 0 /\ velocity[3] = 0)
                       => Len(stepLog'[1].sweeps) = 1
      ]_vars

\* a grounded player put at (0,5,0), further above the floor than the
\* minimum probing distance, has been probed wide, found its ground there
\* and stayed grounded without landing
C29_Witness ==
    /\ UpdateReturned /\ stepsRun > 0
    /\ stepLog[1].start = StartPosition
    /\ stepLog[1].reportBefore.isStableOnGround
    /\ stepLog[1].sweeps[1].distance = WideProbe
    /\ stepLog[1].sweeps[1].hit
    /\ ProbedGap(stepLog[1].sweeps[1]) > minimumGroundProbingDistance
    /\ ~LandedAtProbe(1)
    /\ stepLog[1].grounded

\* the projectiles spawned and not yet disposed
LiveProjectiles ==
    {id \in ProjectileIds : projectiles[id].spawned /\ ~projectiles[id].isDisposed}

\* C26: getActiveCount() is the number of projectiles spawned and not yet
\* disposed, after any sequence of spawns, hits, lifetime expiries, direct
\* dispose calls and clearAll.
C26_ActiveCountExact == getActiveCount = Cardinality(LiveProjectiles)

\* projectile p has been disposed of once: its mesh disposed once, and its
\* render observer removed once and gone
DisposedOnce(p) ==
    /\ p.meshDisposals = 1
    /\ p.observerRemovals = 1
    /\ p.renderObserver = "removed"

\* C30: a projectile calls its hit callback at most once, and never once it
\* is disposed; dispose is idempotent, the mesh being disposed and the render
\* observer removed exactly once however often it is called; update of a
\* disposed projectile changes nothing.  While the scene renders frames of
\* positive time, every projectile spawned is eventually disposed, by a hit
\* or by its lifetime of 3 seconds running out.
C30_ProjectileLifecycle ==
    /\ [](\A id \in ProjectileIds :
            LET p == projectiles[id]
            IN  /\ p.hitCalls <= 1
                /\ ~p.hitWhileDisposed
                /\ p.hitCalls = 1 => p.isDisposed
                /\ IF p.isDisposed
                   THEN /\ DisposedOnce(p)
                        /\ dispose(p) = p
                        /\ \A deltaTime \in FrameTimes :
                              updateProjectile(p, deltaTime) = [p |-> p, hit |-> FALSE]
                   ELSE p.meshDisposals = 0 /\ p.observerRemovals = 0)
    /\ [][\A id \in ProjectileIds :
             projectiles[id].isDisposed => projectiles'[id] = projectiles[id]]_vars
    /\ \A id \in ProjectileIds :
          projectiles[id].spawned ~> projectiles[id].isDisposed

\* one projectile has hit the floor and called back once, the other has
\* outlived its 3 seconds without a hit, and clearAll has then been called
C30_Witness ==
    /\ \E id \in ProjectileIds :
          LET p == projectiles[id]
          IN  p.isDisposed /\ p.hitCalls = 1 /\ p.position[2] = floorY /\ DisposedOnce(p)
    /\ \E id \in ProjectileIds :
          LET p == projectiles[id]
          IN  p.isDisposed /\ p.hitCalls = 0 /\ p.lifeTime <= 0 /\ DisposedOnce(p)
    /\ activeProjectiles = {}
    /\ paintHits = 1

\* C16 (as amended): an update that runs stepsPerFrame fixed steps makes at
\* most (5 + 2) * stepsPerFrame queries of the Sweep Oracle: in each step at
\* most 5 from the slide loop and at most 2 from the ground probe.
C16_BoundedOracleUse ==
    /\ sweepsRun(stepsRun) <= (5 + 2) * stepsRun
    /\ \A i \in Steps :
          /\ Cardinality(Queries(i, "slide")) <= 5
          /\ Cardinality(Queries(i, "probe")) <= 2

\* one fixed step has made 6 queries: its probe and 5 sweeps of the slide
\* loop, bouncing between the sides of the groove
C16_Witness ==
    /\ UpdateReturned /\ stepsRun = 1
    /\ Cardinality(Queries(1, "probe")) = 1
    /\ Cardinality(Queries(1, "slide")) = 5

\* C16 as stated: an update makes at most maxIterations * stepsPerFrame
\* queries of the Sweep Oracle, maxIterations being 5.
C16_WithinSlideBudget == sweepsRun(stepsRun) <= 5 * stepsRun

============================================================================
